---- MODULE Spec2Model ----
(***************************************************************************)
(* A model of SceneService (src/src/services/scene.service.ts) and of its  *)
(* caller AppComponent (src/unnamed/part_000).                             *)
(*                                                                         *)
(* Units.  Elapsed time is counted in half seconds, so that the mode2      *)
(* layer delay layer*0.5 s is `layer` and CYCLE_DURATION 3.0 s is 6.  A     *)
(* vector is a record [num, n2, den] standing for num / (den * sqrt(n2)),  *)
(* which keeps the normalised axes of the table exact.  Scales are in      *)
(* thousandths, volumes in tenths.                                         *)
(*                                                                         *)
(* Objects of the three.js / DOM heap (geometries, materials, meshes,      *)
(* audio elements, renderers) are numbered in allocation order; a field    *)
(* that holds a reference holds the number, 0 standing for undefined/null. *)
(***************************************************************************)
EXTENDS Integers, Sequences, FiniteSets, TLC

VARIABLES
    renderer,        \* this.renderer: 0 or the number of the WebGLRenderer
    rendererDisposed,\* for each renderer made, whether dispose() was called on it
    camera,          \* this.camera: NoCamera or [position, up]
    controls,        \* this.controls: 0 (undefined), 1 (live), 2 (disposed)
    rings,           \* this.rings: sequence of RingData
    mainGroup,       \* children of this.mainGroup: set of mesh numbers
    sharedGeometry,  \* this.sharedGeometry: 0 or the number of a TorusGeometry
    geomDisposed,    \* for each geometry made, the number of dispose() calls on it
    matStore,        \* for each material made, [kind, color, disposed, mesh]:
                     \*   dispose() calls so far, and the mesh it was made for
    animationId,     \* this.animationId: the frame loop whose pending request it names
    rafPending,      \* frame loops that have a requestAnimationFrame callback pending
    clock,           \* this.clock: [running, elapsedTime]
    currentMode,     \* signal currentMode
    currentStyle,    \* signal currentStyle
    volume,          \* signal volume
    isMuted,         \* signal isMuted
    totalAxesCount,  \* this.totalAxesCount
    currentAudio,    \* this.currentAudio: 0 (null) or the number of an audio element
    audioMap,        \* this.audioMap: mode -> number of its audio element, 0 if absent
    audios,          \* for each Audio made, [volume, muted, paused, currentTime, src]
    resizeListeners, \* 'resize' listeners registered on window: for each, the
                     \*   init() call that bound and added it
    lastOp           \* the call that produced this state: [op, arg, threw]

vars == <<renderer, rendererDisposed, camera, controls, rings, mainGroup,
          sharedGeometry, geomDisposed, matStore, animationId, rafPending, clock,
          currentMode, currentStyle, volume, isMuted, totalAxesCount,
          currentAudio, audioMap, audios, resizeListeners, lastOp>>

-----------------------------------------------------------------------------
(* Bounds of the exploration *)

\* init() is called at most this many times
MaxInits == 2
\* dispose() is called on one geometry at most this many times
MaxDisposes == 1
\* setVisual() restyles the rings of one build at most this many times
MaxRestyles == 2
\* the clock is read up to this elapsed time (half seconds)
MaxTime == 1

-----------------------------------------------------------------------------
(* Types of the source *)

AnimMode == {"none", "mode1", "mode2", "mode3"}
VisualStyle == {"styleA", "styleB", "styleC"}
OrientationType == {"perpendicular", "coplanar", "faceOn"}

\* What a caller can pass as `orientation`: the three values of the type, and
\* nothing at all, as AppComponent.reset() does.
OrientationArg == OrientationType \cup {"undefined"}

\* What reaches setAnimationMode and setVisual at run time: the parameter
\* types are erased by compilation, so a caller can pass any string; one
\* string outside each enum stands for them.
AnimModeArg == AnimMode \cup {"mode4"}
VisualStyleArg == VisualStyle \cup {"styleD"}

\* the keys of audioUrls
AudioModes == <<"mode1", "mode2", "mode3">>

\* values a volume slider hands to setVolume (tenths)
VolumeArg == {5, 10}

-----------------------------------------------------------------------------
(* THREE.Vector3 *)

Vec(x, y, z) == [num |-> <<x, y, z>>, n2 |-> 1, den |-> 1]

ZeroVec == Vec(0, 0, 0)

\* new Vector3(x, y, z).normalize()
Normalize(x, y, z) ==
    LET l2 == x * x + y * y + z * z
    IN  IF l2 = 0 THEN ZeroVec ELSE [num |-> <<x, y, z>>, n2 |-> l2, den |-> 1]

\* v.multiplyScalar(p / q), p / q in lowest terms
MultiplyScalar(v, p, q) ==
    IF p = 0 THEN ZeroVec
    ELSE [num |-> <<p * v.num[1], p * v.num[2], p * v.num[3]>>,
          n2 |-> v.n2, den |-> q * v.den]

DotNum(a, b) == a.num[1] * b.num[1] + a.num[2] * b.num[2] + a.num[3] * b.num[3]

\* a.dot(b) > p / 1000, for p >= 0
DotAbove(a, b, p) ==
    /\ DotNum(a, b) > 0
    /\ DotNum(a, b) * DotNum(a, b) * 1000000
         > p * p * a.n2 * b.n2 * a.den * a.den * b.den * b.den

\* a.dot(b) < - p / 1000, for p >= 0
DotBelowMinus(a, b, p) ==
    /\ DotNum(a, b) < 0
    /\ DotNum(a, b) * DotNum(a, b) * 1000000
         > p * p * a.n2 * b.n2 * a.den * a.den * b.den * b.den

\* new Vector3().crossVectors(a, b).normalize()
CrossNormalized(a, b) ==
    Normalize(a.num[2] * b.num[3] - a.num[3] * b.num[2],
              a.num[3] * b.num[1] - a.num[1] * b.num[3],
              a.num[1] * b.num[2] - a.num[2] * b.num[1])

-----------------------------------------------------------------------------
(* THREE.Quaternion.  A quaternion is kept as the term that built it:       *)
(* kind "identity", "axisPi" (setFromAxisAngle(from, PI)) or "unitVectors"  *)
(* (setFromUnitVectors(from, to)), followed by the local rotation `rot`     *)
(* that Object3D.rotateX / rotateOnAxis multiplied onto it.                 *)

NoRot == [kind |-> "none", axis |-> 0, a |-> 0, b |-> 0]

IdentityQ == [kind |-> "identity", from |-> ZeroVec, to |-> ZeroVec, rot |-> NoRot]

SetFromAxisPi(axis) ==
    [kind |-> "axisPi", from |-> axis, to |-> ZeroVec, rot |-> NoRot]

\* setFromUnitVectors(vFrom, vTo): r = vFrom.dot(vTo) + 1 and the cross product;
\* for vTo = vFrom the cross product is 0 and the result is the identity.
SetFromUnitVectors(vFrom, vTo) ==
    IF vFrom = vTo THEN IdentityQ
    ELSE [kind |-> "unitVectors", from |-> vFrom, to |-> vTo, rot |-> NoRot]

\* q.multiply(rotation r about a local axis); a zero angle multiplies by 1
RotateLocal(q, r) == IF r.kind = "none" THEN q ELSE [q EXCEPT !.rot = r]

-----------------------------------------------------------------------------
(* buildGeometry: the axes table and createRing *)

Y_AXIS == Vec(0, 1, 0)

\* a table that lists the shared vertical axis once
AxesDeduplicated ==
    << [vec |-> Vec(1, 0, 0),           planeId |-> 0],
       [vec |-> Y_AXIS,                 planeId |-> 0],
       [vec |-> Normalize(1, 1, 0),     planeId |-> 0],
       [vec |-> Normalize(1, -1, 0),    planeId |-> 0],
       [vec |-> Vec(0, 0, 1),           planeId |-> 1],
       [vec |-> Normalize(0, 1, 1),     planeId |-> 1],
       [vec |-> Normalize(0, 1, -1),    planeId |-> 1],
       [vec |-> Normalize(1, 0, 1),     planeId |-> 2],
       [vec |-> Normalize(1, 1, 1),     planeId |-> 2],
       [vec |-> Normalize(1, -1, 1),    planeId |-> 2],
       [vec |-> Normalize(1, 0, -1),    planeId |-> 3],
       [vec |-> Normalize(1, 1, -1),    planeId |-> 3],
       [vec |-> Normalize(1, -1, -1),   planeId |-> 3] >>

\* axes: 4 planes of 4 axes, the Y axis repeated in each plane
Axes ==
    << [vec |-> Vec(1, 0, 0),           planeId |-> 0],
       [vec |-> Y_AXIS,                 planeId |-> 0],
       [vec |-> Normalize(1, 1, 0),     planeId |-> 0],
       [vec |-> Normalize(1, -1, 0),    planeId |-> 0],
       [vec |-> Vec(0, 0, 1),           planeId |-> 1],
       [vec |-> Y_AXIS,                 planeId |-> 1],
       [vec |-> Normalize(0, 1, 1),     planeId |-> 1],
       [vec |-> Normalize(0, 1, -1),    planeId |-> 1],
       [vec |-> Normalize(1, 0, 1),     planeId |-> 2],
       [vec |-> Y_AXIS,                 planeId |-> 2],
       [vec |-> Normalize(1, 1, 1),     planeId |-> 2],
       [vec |-> Normalize(1, -1, 1),    planeId |-> 2],
       [vec |-> Normalize(1, 0, -1),    planeId |-> 3],
       [vec |-> Y_AXIS,                 planeId |-> 3],
       [vec |-> Normalize(1, 1, -1),    planeId |-> 3],
       [vec |-> Normalize(1, -1, -1),   planeId |-> 3] >>

\* a step loop that stops one short: step < 2
StepsShort == <<-2, -1, 0, 1>>

\* the steps of the loop `for (let step = -2; step <= 2; step++)`
Steps == <<-2, -1, 0, 1, 2>>

\* rings one build makes: axes.forEach x the step loop
RingCount == Len(Axes) * Len(Steps)

Abs(n) == IF n < 0 THEN -n ELSE n

\* mesh.scale of a ring, in thousandths: 1.0 + axisIndex * 0.002
BaseScale(axisIndex) == 1000 + axisIndex * 2

\* new THREE.MeshBasicMaterial({ color: 0xffffff }), made for mesh meshNo
BasicMaterial(meshNo) ==
    [kind |-> "basic", color |-> 16777215, disposed |-> 0, mesh |-> meshNo]

\* qPerp of createRing
QuatPerpendicular(dir) ==
    LET zAxis == Vec(0, 0, 1)
    IN  IF DotBelowMinus(dir, zAxis, 999) THEN SetFromAxisPi(Vec(1, 0, 0))
        ELSE IF DotAbove(dir, zAxis, 999) THEN IdentityQ
        ELSE SetFromUnitVectors(zAxis, dir)

\* a tangent without the fallback axis: always the cross product with world-up
TangentWithoutFallback(dir) == CrossNormalized(dir, Vec(0, 1, 0))

\* tangent of createRing
Tangent(dir) ==
    LET worldUp == Vec(0, 1, 0)
    IN  IF DotAbove(dir, worldUp, 900) \/ DotBelowMinus(dir, worldUp, 900)
        THEN CrossNormalized(dir, Vec(1, 0, 0))
        ELSE CrossNormalized(dir, worldUp)

\* qCoplanar of createRing
QuatCoplanar(dir) == SetFromUnitVectors(Vec(0, 0, 1), Tangent(dir))

\* createRing(pos, dir, step, axisIndex, planeId): the RingData pushed, with the
\* numbers of the mesh, of the shared geometry and of the new material
createRing(pos, dir, step, axisIndex, planeId, meshNo, geomNo, matNo) ==
    LET qPerp == QuatPerpendicular(dir)
        qCoplanar == QuatCoplanar(dir)
    IN  [ mesh |-> [ id |-> meshNo, geometry |-> geomNo, material |-> matNo,
                     position |-> pos, quaternion |-> qPerp,
                     scale |-> BaseScale(axisIndex) ],
          direction |-> dir,
          step |-> step,
          basePosition |-> pos,
          baseQuaternion |-> qPerp,
          quatPerpendicular |-> qPerp,
          quatCoplanar |-> qCoplanar,
          phase |-> Abs(step) * 5 + axisIndex * 2,      \* tenths
          lineProgress |-> step + 2,                    \* quarters
          axisIndex |-> axisIndex,
          planeIndex |-> planeId ]

\* a generation loop without `if (step < 0) distance *= -1`
RingPositionUnsigned(vec, step) ==
    LET absStep == Abs(step)
    IN  IF absStep = 2 THEN MultiplyScalar(vec, 5, 2)
        ELSE IF absStep = 1 THEN MultiplyScalar(vec, 1, 1)
        ELSE MultiplyScalar(vec, 0, 1)

\* the position the generation loop computes for a step on an axis
RingPosition(vec, step) ==
    LET absStep == Abs(step)
        \* distance as a fraction p / q: 0, 1.0 or 2.5
        p0 == IF absStep = 2 THEN 5 ELSE IF absStep = 1 THEN 1 ELSE 0
        q == IF absStep = 2 THEN 2 ELSE 1
        p == IF step < 0 THEN -p0 ELSE p0
    IN  MultiplyScalar(vec, p, q)

\* The rings one call of buildGeometry pushes, in order.  The k-th ring
\* (k = 1..RingCount, array index k - 1) is the one of axis (k-1) \div 5 and
\* step Steps[((k-1) % 5) + 1].
GenerateRings(geomNo, firstMesh, firstMat) ==
    [ k \in 1..RingCount |->
        LET axisIndex == (k - 1) \div Len(Steps)
            step == Steps[((k - 1) % Len(Steps)) + 1]
            item == Axes[axisIndex + 1]
        IN  createRing(RingPosition(item.vec, step), item.vec, step, axisIndex,
                       item.planeId, firstMesh + k, geomNo, firstMat + k) ]

\* buildGeometry(): the new values of the fields it writes
buildGeometry ==
    LET geomNo == Len(geomDisposed) + 1
        released == IF sharedGeometry # 0
                    THEN [geomDisposed EXCEPT ![sharedGeometry] = @ + 1]
                    ELSE geomDisposed
        newRings == GenerateRings(geomNo, (geomNo - 1) * RingCount, Len(matStore))
    IN  [ rings |-> newRings,
          mainGroup |-> { newRings[k].mesh.id : k \in 1..RingCount },
          sharedGeometry |-> geomNo,
          geomDisposed |-> Append(released, 0),
          matStore |-> matStore \o
                       [k \in 1..RingCount |-> BasicMaterial(newRings[k].mesh.id)],
          totalAxesCount |-> Len(Axes) ]

-----------------------------------------------------------------------------
(* THREE.Clock *)

\* new THREE.Clock(): autoStart, not running yet
NewClock == [running |-> FALSE, elapsedTime |-> 0]

\* clock.start()
ClockStart(c) == [running |-> TRUE, elapsedTime |-> 0]

\* clock.getElapsedTime(), dt half seconds after the last reading: a clock that
\* is not running is started (autoStart) and reads 0
GetElapsedTime(c, dt) ==
    IF ~c.running THEN ClockStart(c) ELSE [c EXCEPT !.elapsedTime = @ + dt]

\* a reset that stops the clock where it is instead of replacing it
pauseClock(c) == [c EXCEPT !.running = FALSE]

\* resetView, step 2: this.clock = new THREE.Clock(); this.clock.start()
restartClock(c) == ClockStart(NewClock)

-----------------------------------------------------------------------------
(* applyAnimation *)

\* CYCLE_DURATION = 3.0 s, in half seconds
CYCLE_DURATION == 6

\* JavaScript's a % b for b > 0: the result has the sign of a
JsRem(a, b) == IF a < 0 THEN -((-a) % b) ELSE a % b

\* The rotation a mode multiplies onto the base orientation of ring r, the i-th
\* of the array, at elapsed time `time`.  Angles that are a sine stay terms over
\* the arguments of the sine; sin(0) = 0 is the zero rotation.
ModeRotation(mode, time, r, i) ==
    IF mode = "mode1" THEN
        \* rotateX(degToRad(35) * sin(t + planeIndex))
        IF time = 0 /\ r.planeIndex = 0 THEN NoRot
        ELSE [kind |-> "tiltX35sin", axis |-> 0, a |-> time, b |-> r.planeIndex]
    ELSE IF mode = "mode2" THEN
        \* rotateX(((time - layer * 0.5) % CYCLE_DURATION) / CYCLE_DURATION * 2 PI)
        LET layer == Abs(r.step)
            phaseDelay == layer
            cycleNum == JsRem(time - phaseDelay, CYCLE_DURATION)
        IN  IF cycleNum = 0 THEN NoRot
            ELSE [kind |-> "rotXturns", axis |-> 0, a |-> cycleNum, b |-> CYCLE_DURATION]
    ELSE IF mode = "mode3" THEN
        \* rotateOnAxis((cos a, sin a, 0), degToRad(30) * sin(t + i * PI / 12)),
        \* a = i * 0.5 + step (kept in halves)
        IF time = 0 /\ i = 0 THEN NoRot
        ELSE [kind |-> "tiltAxis30sin", axis |-> i + 2 * r.step, a |-> time, b |-> i]
    ELSE NoRot

\* a frame that rotates on from the previous frame's orientation
applyAnimationAccumulating(rs, mode, time) ==
    [ k \in 1..Len(rs) |->
        LET r == rs[k]
        IN  [r EXCEPT !.mesh.position = r.basePosition,
                      !.mesh.quaternion =
                          RotateLocal(r.mesh.quaternion, ModeRotation(mode, time, r, k - 1)),
                      !.mesh.scale = BaseScale(r.axisIndex)] ]

\* a frame that leaves the rings alone when no mode is active
applyAnimationSkippingNone(rs, mode, time) ==
    IF mode = "none" THEN rs
    ELSE [ k \in 1..Len(rs) |->
             LET r == rs[k]
             IN  [r EXCEPT !.mesh.position = r.basePosition,
                           !.mesh.quaternion =
                               RotateLocal(r.baseQuaternion, ModeRotation(mode, time, r, k - 1)),
                           !.mesh.scale = BaseScale(r.axisIndex)] ]

\* applyAnimation(time) over this.rings
applyAnimation(rs, mode, time) ==
    [ k \in 1..Len(rs) |->
        LET r == rs[k]
        IN  [r EXCEPT !.mesh.position = r.basePosition,
                      !.mesh.quaternion =
                          RotateLocal(r.baseQuaternion, ModeRotation(mode, time, r, k - 1)),
                      !.mesh.scale = BaseScale(r.axisIndex)] ]

-----------------------------------------------------------------------------
(* applyStyle *)

axisColors ==
    << 16347926, 15381256, 2278750, 440020,
       3900150, 6514417, 11032055, 14239471,
       16007006, 15680580, 8702998, 1357990,
       6583435, 15485081, 9133302, 1096065 >>

\* newMat of the switch on style, assigned to the mesh of ring r
NewMaterial(style, r) ==
    IF style = "styleA"
    THEN [kind |-> "styleA", color |-> 2236962, disposed |-> 0, mesh |-> r.mesh.id]
    ELSE IF style = "styleB"
    THEN [kind |-> "styleB", color |-> 959977, disposed |-> 0, mesh |-> r.mesh.id]
    ELSE IF style = "styleC"
    THEN [kind |-> "styleC",
          color |-> axisColors[(r.axisIndex % Len(axisColors)) + 1],
          disposed |-> 0, mesh |-> r.mesh.id]
    ELSE BasicMaterial(r.mesh.id)

\* a pass over the rings that releases nothing
keepMaterials(rs, ms) == ms

\* rings.forEach(r => r.mesh.material.dispose()): the materials ms after every
\* ring of rs has disposed the material its mesh holds (never an array here)
disposeMaterials(rs, ms) ==
    LET old == { rs[k].mesh.material : k \in 1..Len(rs) }
    IN  [ m \in 1..Len(ms) |->
            IF m \in old
            THEN [ms[m] EXCEPT !.disposed =
                    @ + Cardinality({k \in 1..Len(rs) : rs[k].mesh.material = m})]
            ELSE ms[m] ]

\* an applyStyle that makes its material before looking at the rings and
\* shares it among them
applyStyleHoisted(rs, ms, style) ==
    LET released == disposeMaterials(rs, ms)
    IN  [ rings |-> [ k \in 1..Len(rs) |->
                        [rs[k] EXCEPT !.mesh.material = Len(ms) + 1] ],
          matStore |-> Append(released,
                              [kind |-> style, color |-> 0, disposed |-> 0, mesh |-> 0]) ]

\* applyStyle(style) over rings rs and materials ms: every ring's material is
\* disposed and replaced by a new one
applyStyle(rs, ms, style) ==
    IF Len(rs) = 0 THEN [rings |-> rs, matStore |-> ms]
    ELSE
        LET released == disposeMaterials(rs, ms)
        IN  [ rings |-> [ k \in 1..Len(rs) |->
                            [rs[k] EXCEPT !.mesh.material = Len(ms) + k] ],
              matStore |-> released \o [ k \in 1..Len(rs) |-> NewMaterial(style, rs[k]) ] ]

-----------------------------------------------------------------------------
(* Audio *)

\* audioMap = {}
EmptyAudioMap == [m \in {"mode1", "mode2", "mode3"} |-> 0]

\* Object.values(this.audioMap)
AudioValues(map) == { map[m] : m \in DOMAIN map } \ {0}

\* preloadAudio(): one new Audio per entry of audioUrls
preloadAudio ==
    LET n == Len(audios)
    IN  [ audioMap |-> [m \in DOMAIN EmptyAudioMap |->
                          n + (CHOOSE j \in 1..Len(AudioModes) : AudioModes[j] = m)],
          audios |-> audios \o
                     [ j \in 1..Len(AudioModes) |->
                         [ src |-> AudioModes[j], loop |-> TRUE, volume |-> volume,
                           muted |-> isMuted, paused |-> TRUE, currentTime |-> 0 ] ] ]

\* updateAudio(mode) on current track cur, map `map` and elements au, with the
\* signals vol and muted; `played` is whether the browser lets play() start
\* the track (a refused play() is caught and leaves it paused)
updateAudio(cur, map, au, mode, vol, muted, played) ==
    LET stopped == IF cur # 0
                   THEN [au EXCEPT ![cur].paused = TRUE, ![cur].currentTime = 0]
                   ELSE au
    IN  \* a mode that is no key of the map reads undefined
        IF mode # "none" /\ mode \in DOMAIN map /\ map[mode] # 0
        THEN [ currentAudio |-> map[mode],
               audios |-> [stopped EXCEPT ![map[mode]].volume = vol,
                                          ![map[mode]].muted = muted,
                                          ![map[mode]].currentTime = 0,
                                          ![map[mode]].paused = ~played] ]
        ELSE [ currentAudio |-> 0, audios |-> stopped ]

-----------------------------------------------------------------------------
(* State after construction of the service *)

NoCamera == [position |-> <<>>, up |-> <<>>]

\* camera poses, positions in tenths
TunnelPose == [position |-> <<0, 0, 150>>, up |-> <<0, 1, 0>>]
TopDownPose == [position |-> <<0, 150, 1>>, up |-> <<0, 0, -1>>]

Op(name, arg, threw) == [op |-> name, arg |-> arg, threw |-> threw]

Init ==
    /\ renderer = 0
    /\ rendererDisposed = <<>>
    /\ camera = NoCamera
    /\ controls = 0
    /\ rings = <<>>
    /\ mainGroup = {}
    /\ sharedGeometry = 0
    /\ geomDisposed = <<>>
    /\ matStore = <<>>
    /\ animationId = 0
    /\ rafPending = {}
    /\ clock = NewClock
    /\ currentMode = "none"
    /\ currentStyle = "styleC"
    /\ volume = 5
    /\ isMuted = FALSE
    /\ totalAxesCount = 0
    /\ currentAudio = 0
    /\ audioMap = EmptyAudioMap
    /\ audios = <<>>
    /\ resizeListeners = {}
    /\ lastOp = Op("new", "", FALSE)

-----------------------------------------------------------------------------
(* Operations *)

\* elapsed times a reading of the clock may add since the last reading
Elapse == { dt \in 0..1 : clock.elapsedTime + dt <= MaxTime }

\* init(canvas), with the first animate() it runs before returning
init ==
    /\ Len(geomDisposed) < MaxInits
    /\ \E dt \in Elapse :
        LET built == buildGeometry
            audio == preloadAudio
            styled == applyStyle(built.rings, built.matStore, currentStyle)
            loop == Len(rendererDisposed) + 1
            c == GetElapsedTime(clock, dt)
        IN  /\ camera' = TunnelPose
            /\ renderer' = Len(rendererDisposed) + 1
            /\ rendererDisposed' = Append(rendererDisposed, FALSE)
            /\ mainGroup' = built.mainGroup
            /\ sharedGeometry' = built.sharedGeometry
            /\ geomDisposed' = built.geomDisposed
            /\ totalAxesCount' = built.totalAxesCount
            /\ controls' = 1
            /\ audioMap' = audio.audioMap
            /\ audios' = audio.audios
            /\ matStore' = styled.matStore
            /\ animationId' = loop
            /\ rafPending' = rafPending \cup {loop}
            /\ clock' = c
            /\ rings' = applyAnimation(styled.rings, currentMode, c.elapsedTime)
            /\ resizeListeners' = resizeListeners \cup {loop}
    /\ lastOp' = Op("init", "", FALSE)
    /\ UNCHANGED <<currentMode, currentStyle, volume, isMuted, currentAudio>>

\* animate(): the frame callback of a loop that has a request pending
animate ==
    /\ \E loop \in rafPending, dt \in Elapse :
        LET c == GetElapsedTime(clock, dt)
        IN  /\ animationId' = loop
            /\ clock' = c
            /\ rings' = applyAnimation(rings, currentMode, c.elapsedTime)
    /\ lastOp' = Op("animate", "", FALSE)
    /\ UNCHANGED <<resizeListeners, renderer, rendererDisposed, camera, controls, mainGroup,
                   sharedGeometry, geomDisposed, matStore, rafPending,
                   currentMode, currentStyle, volume, isMuted, totalAxesCount,
                   currentAudio, audioMap, audios>>

\* a setAnimationMode without its early return
neverActive(mode) == FALSE

\* the early return of setAnimationMode: this.currentMode() === mode
alreadyActive(mode) == currentMode = mode

\* setAnimationMode(mode); `played` as in updateAudio
setAnimationMode(mode, played) ==
    /\ lastOp' = Op("setAnimationMode", mode, FALSE)
    /\ IF alreadyActive(mode)
       THEN UNCHANGED <<currentMode, currentAudio, audios>>
       ELSE LET a == updateAudio(currentAudio, audioMap, audios, mode,
                                 volume, isMuted, played)
            IN  /\ currentMode' = mode
                /\ currentAudio' = a.currentAudio
                /\ audios' = a.audios
    /\ UNCHANGED <<resizeListeners, renderer, rendererDisposed, camera, controls, rings, mainGroup,
                   sharedGeometry, geomDisposed, matStore, animationId,
                   rafPending, clock, currentStyle, volume, isMuted,
                   totalAxesCount, audioMap>>

\* setVisual(style)
setVisual(style) ==
    /\ Len(matStore) < (2 * Len(geomDisposed) + MaxRestyles) * RingCount
    /\ lastOp' = Op("setVisual", style, FALSE)
    /\ currentStyle' = style
    /\ LET styled == applyStyle(rings, matStore, style)
       IN  /\ rings' = styled.rings
           /\ matStore' = styled.matStore
    /\ UNCHANGED <<resizeListeners, renderer, rendererDisposed, camera, controls, mainGroup,
                   sharedGeometry, geomDisposed, animationId, rafPending, clock,
                   currentMode, volume, isMuted, totalAxesCount, currentAudio,
                   audioMap, audios>>

\* a resetView that turns half way from the current base orientation to the
\* perpendicular reference
TargetQuaternionInterpolated(orientation, r) ==
    IF orientation = "perpendicular"
    THEN IF r.baseQuaternion = r.quatPerpendicular THEN r.quatPerpendicular
         ELSE [kind |-> "slerp", from |-> r.baseQuaternion, to |-> r.quatPerpendicular,
               rot |-> NoRot]
    ELSE IF orientation = "coplanar" THEN r.quatCoplanar
    ELSE IdentityQ

\* a resetView that takes the two stored references for each other
TargetQuaternionSwapped(orientation, r) ==
    IF orientation = "perpendicular" THEN r.quatCoplanar
    ELSE IF orientation = "coplanar" THEN r.quatPerpendicular
    ELSE IdentityQ

\* targetQ of resetView for ring r
TargetQuaternion(orientation, r) ==
    IF orientation = "perpendicular" THEN r.quatPerpendicular
    ELSE IF orientation = "coplanar" THEN r.quatCoplanar
    ELSE IdentityQ

\* resetView(orientation)
resetView(orientation) ==
    /\ lastOp' = Op("resetView", orientation, FALSE)
    /\ camera' = IF camera # NoCamera /\ controls # 0
                 THEN IF orientation = "coplanar" THEN TopDownPose ELSE TunnelPose
                 ELSE camera
    /\ clock' = restartClock(clock)
    /\ rings' = [ k \in 1..Len(rings) |->
                    LET targetQ == TargetQuaternion(orientation, rings[k])
                    IN  [rings[k] EXCEPT !.baseQuaternion = targetQ,
                                         !.mesh.quaternion = targetQ] ]
    /\ currentMode' = "none"
    /\ LET a == updateAudio(currentAudio, audioMap, audios, "none",
                            volume, isMuted, FALSE)
       IN  /\ currentAudio' = a.currentAudio
           /\ audios' = a.audios
    /\ UNCHANGED <<resizeListeners, renderer, rendererDisposed, controls, mainGroup, sharedGeometry,
                   geomDisposed, matStore, animationId, rafPending, currentStyle,
                   volume, isMuted, totalAxesCount, audioMap>>

\* setVolume(val)
setVolume(val) ==
    /\ lastOp' = Op("setVolume", "", FALSE)
    /\ volume' = val
    /\ audios' = [ n \in 1..Len(audios) |->
                     IF n \in AudioValues(audioMap)
                     THEN [audios[n] EXCEPT !.volume = val] ELSE audios[n] ]
    /\ UNCHANGED <<resizeListeners, renderer, rendererDisposed, camera, controls, rings, mainGroup,
                   sharedGeometry, geomDisposed, matStore, animationId,
                   rafPending, clock, currentMode, currentStyle, isMuted,
                   totalAxesCount, currentAudio, audioMap>>

\* toggleMute()
toggleMute ==
    /\ lastOp' = Op("toggleMute", "", FALSE)
    /\ isMuted' = ~isMuted
    /\ audios' = [ n \in 1..Len(audios) |->
                     IF n \in AudioValues(audioMap)
                     THEN [audios[n] EXCEPT !.muted = ~isMuted] ELSE audios[n] ]
    /\ UNCHANGED <<resizeListeners, renderer, rendererDisposed, camera, controls, rings, mainGroup,
                   sharedGeometry, geomDisposed, matStore, animationId, rafPending,
                   clock, currentMode, currentStyle, volume, totalAxesCount,
                   currentAudio, audioMap>>

\* this.onWindowResize.bind(this) evaluated in dispose(): a new function object,
\* which no init() registered (the registered ones are numbered from 1)
FreshBind == 0

\* a removal that takes the listener the last init registered
removeLastRegistered(listeners, fn) == listeners \ {renderer}

\* window.removeEventListener('resize', fn): removes fn if it is registered
removeEventListener(listeners, fn) == listeners \ {fn}

\* dispose().  this.renderer.dispose() throws a TypeError when init never ran
\* (this.renderer is undefined); the statements before it have run by then.
dispose ==
    /\ sharedGeometry # 0 => geomDisposed[sharedGeometry] < MaxDisposes
    /\ lastOp' = Op("dispose", "", renderer = 0)
    /\ rafPending' = rafPending \ {animationId}
    /\ resizeListeners' = removeEventListener(resizeListeners, FreshBind)
    /\ currentAudio' = 0
    /\ audios' = [ n \in 1..Len(audios) |->
                     IF n \in AudioValues(audioMap)
                     THEN [audios[n] EXCEPT !.paused = TRUE, !.src = "",
                                            !.currentTime = 0]
                     ELSE IF n = currentAudio
                     THEN [audios[n] EXCEPT !.paused = TRUE]
                     ELSE audios[n] ]
    /\ audioMap' = EmptyAudioMap
    /\ geomDisposed' = IF sharedGeometry # 0
                       THEN [geomDisposed EXCEPT ![sharedGeometry] = @ + 1]
                       ELSE geomDisposed
    /\ matStore' = disposeMaterials(rings, matStore)
    /\ mainGroup' = {}
    /\ rendererDisposed' = IF renderer # 0
                           THEN [rendererDisposed EXCEPT ![renderer] = TRUE]
                           ELSE rendererDisposed
    /\ controls' = IF renderer # 0 /\ controls # 0 THEN 2 ELSE controls
    /\ UNCHANGED <<renderer, camera, rings, sharedGeometry, animationId, clock,
                   currentMode, currentStyle, volume, isMuted, totalAxesCount>>

\* the track that is playing moves on from its start
audioPlays ==
    \E n \in 1..Len(audios) :
        /\ ~audios[n].paused
        /\ audios[n].currentTime = 0
        /\ audios' = [audios EXCEPT ![n].currentTime = 1]
        /\ lastOp' = Op("audioPlays", "", FALSE)
        /\ UNCHANGED <<resizeListeners, renderer, rendererDisposed, camera, controls, rings, mainGroup,
                       sharedGeometry, geomDisposed, matStore, animationId,
                       rafPending, clock, currentMode, currentStyle, volume,
                       isMuted, totalAxesCount, currentAudio, audioMap>>

\* A 'resize' event of the window: every registered listener runs
\* onWindowResize().  Without a camera or a renderer the handler returns at
\* once; otherwise it writes the camera's aspect and the renderer's size from
\* the window's (neither is part of this state) and calls
\* controls.handleResize().  lastOp.arg tells whether it ran on a renderer
\* that dispose() had released.
onWindowResize ==
    /\ resizeListeners # {}
    /\ lastOp' = Op("onWindowResize",
                    IF renderer # 0 /\ rendererDisposed[renderer]
                    THEN "released" ELSE "live", FALSE)
    /\ UNCHANGED <<renderer, rendererDisposed, camera, controls, rings, mainGroup,
                   sharedGeometry, geomDisposed, matStore, animationId,
                   rafPending, clock, currentMode, currentStyle, volume,
                   isMuted, totalAxesCount, currentAudio, audioMap, audios,
                   resizeListeners>>

(***************************************************************************)
(* Specifications.  The service is one object whose handlers may be called *)
(* in any order; Next is all of them.  Its state space is the product of   *)
(* three nearly independent parts (view and animation, resource lifetime,  *)
(* audio), so each part is explored by a specification of its own, made of *)
(* the complete handlers that write the part.                              *)
(***************************************************************************)

\* init has run and dispose has not run since
Live == renderer # 0 /\ ~rendererDisposed[renderer]

\* dispose has run since the last init
TornDown == renderer # 0 /\ rendererDisposed[renderer]

SetAnimationMode == \E mode \in AnimMode, played \in BOOLEAN : setAnimationMode(mode, played)
SetVisual == \E style \in VisualStyle : setVisual(style)
ResetView == \E orientation \in OrientationArg : resetView(orientation)
SetVolume == \E val \in VolumeArg : setVolume(val)

Next ==
    \/ init
    \/ animate
    \/ SetAnimationMode
    \/ SetVisual
    \/ ResetView
    \/ SetVolume
    \/ toggleMute
    \/ dispose
    \/ audioPlays

Spec == Init /\ [][Next]_vars

\* view and animation: build and rebuild, frames, mode changes, view resets,
\* the playing track moving on, teardown
NextView ==
    \/ init
    \/ animate
    \/ SetAnimationMode
    \/ ResetView
    \/ audioPlays
    \/ dispose

SpecView == Init /\ [][NextView]_vars

\* resource lifetime: build and rebuild, restyling, frames, teardown
NextLifecycle ==
    \/ init
    \/ animate
    \/ SetVisual
    \/ dispose

SpecLifecycle == Init /\ [][NextLifecycle]_vars

(* AppComponent: the one caller of the service in the repository.  The     *)
(* root component is alive between its ngAfterViewInit and its ngOnDestroy, *)
(* one instance at a time, and its handlers run only while it is alive.     *)

\* AppComponent.ngAfterViewInit(): sceneService.init(canvas)
ngAfterViewInit == ~Live /\ init

\* AppComponent.ngOnDestroy(): sceneService.dispose()
ngOnDestroy == Live /\ dispose

\* AppComponent.setMode(mode): sceneService.setAnimationMode(mode)
setMode == Live /\ SetAnimationMode

\* AppComponent.reset(): sceneService.resetView(), without an argument
reset == Live /\ resetView("undefined")

\* the volume slider and the mute button of the view: setVolume, toggleMute
volumeControl == Live /\ SetVolume
muteControl == Live /\ toggleMute

\* audio, as the component drives the service: preload, mode changes, reset,
\* teardown and re-init, with the volume and mute controls of the service
NextAudio ==
    \/ ngAfterViewInit
    \/ setMode
    \/ reset
    \/ volumeControl
    \/ muteControl
    \/ ngOnDestroy

SpecAudio == Init /\ [][NextAudio]_vars

\* AppComponent.setStyle(style): sceneService.setVisual(style)
setStyle == Live /\ SetVisual

\* the window and the component: the component's life, restyling, resize
\* events of the window, frames
NextWindow ==
    \/ ngAfterViewInit
    \/ setStyle
    \/ animate
    \/ onWindowResize
    \/ ngOnDestroy

SpecWindow == Init /\ [][NextWindow]_vars

\* the command boundary: the two commands that take an enum, called with any
\* string, and what then runs on the value they stored
SetAnimationModeAny ==
    \E mode \in AnimModeArg, played \in BOOLEAN : setAnimationMode(mode, played)
SetVisualAny == \E style \in VisualStyleArg : setVisual(style)

NextBoundary ==
    \/ ngAfterViewInit
    \/ animate
    \/ SetAnimationModeAny
    \/ SetVisualAny

SpecBoundary == Init /\ [][NextBoundary]_vars

\* a reset of the view to any orientation while the component is alive
resetTo == Live /\ ResetView

\* the rings under every command that reads or writes them, for one build:
\* frames, mode changes, restyling, view resets
NextRings ==
    \/ ngAfterViewInit
    \/ animate
    \/ setMode
    \/ setStyle
    \/ resetTo

SpecRings == Init /\ [][NextRings]_vars

-----------------------------------------------------------------------------
(* Properties *)

\* every field of the service and of the objects it owns
serviceState ==
    <<renderer, rendererDisposed, camera, controls, rings, mainGroup,
      sharedGeometry, geomDisposed, matStore, animationId, rafPending, clock,
      currentMode, currentStyle, volume, isMuted, totalAxesCount,
      currentAudio, audioMap, audios, resizeListeners>>

\* C1: in the state resetView returns in, whatever the state it was called in
\* and whatever its argument, currentMode is 'none' and the clock is running
\* and reads 0.
C1_ResetRestoresTimeAndMode ==
    lastOp.op = "resetView" =>
        /\ currentMode = "none"
        /\ clock.running
        /\ clock.elapsedTime = 0

\* resetView('coplanar') has returned on a built scene
C1_Witness ==
    /\ lastOp.op = "resetView"
    /\ lastOp.arg = "coplanar"
    /\ rings # <<>>
    /\ rings[1].baseQuaternion = rings[1].quatCoplanar

\* C2: a call setAnimationMode(m) made while m is the active mode changes no
\* field of the service: mode, rings, clock, selected track and audio
\* elements are as before.
C2_SetModeIdempotent ==
    [][ (lastOp'.op = "setAnimationMode" /\ lastOp'.arg = currentMode)
          => UNCHANGED serviceState ]_vars

\* setAnimationMode(m) has returned, m being the active mode, its track
\* playing and past its start
C2_Witness ==
    /\ lastOp.op = "setAnimationMode"
    /\ lastOp.arg = currentMode
    /\ currentAudio # 0
    /\ ~audios[currentAudio].paused
    /\ audios[currentAudio].currentTime = 1
    /\ rings # <<>>

\* the materials the rings hold, and the meshes of the rings
RingMaterials == { rings[k].mesh.material : k \in 1..Len(rings) }
RingMeshIds == { rings[k].mesh.id : k \in 1..Len(rings) }

\* C3: while the scene is initialised, each ring holds a material of its own
\* that is not disposed, and every other material ever made for that ring's
\* mesh is disposed: one live material per ring, however many style switches.
C3_OneLiveMaterialPerRing ==
    Live =>
        /\ Cardinality(RingMaterials) = Len(rings)
        /\ \A k \in 1..Len(rings) :
               matStore[rings[k].mesh.material].mesh = rings[k].mesh.id
        /\ \A m \in 1..Len(matStore) :
               matStore[m].mesh \in RingMeshIds =>
                   ((matStore[m].disposed = 0) <=> (m \in RingMaterials))

\* setVisual has returned on a live scene whose rings were restyled twice
\* since their build
C3_Witness ==
    /\ Live
    /\ lastOp.op = "setVisual"
    /\ Len(geomDisposed) = 1
    /\ Len(matStore) = 4 * Len(rings)
    /\ Len(rings) > 0

\* C4: after dispose no frame runs until the next init, and when dispose
\* returns the shared geometry and the material of every ring are released.
C4_TeardownHaltsAndReleases ==
    /\ TornDown => (lastOp.op # "animate" /\ rafPending = {})
    /\ (lastOp.op = "dispose" /\ ~lastOp.threw) =>
           /\ geomDisposed[sharedGeometry] >= 1
           /\ \A k \in 1..Len(rings) : matStore[rings[k].mesh.material].disposed >= 1

\* C5: no geometry and no material is disposed more than once, and a frame
\* renders no mesh whose geometry or material is disposed.
C5_ReleasedExactlyOnce ==
    /\ \A g \in 1..Len(geomDisposed) : geomDisposed[g] <= 1
    /\ \A m \in 1..Len(matStore) : matStore[m].disposed <= 1
    /\ lastOp.op = "animate" =>
           \A k \in 1..Len(rings) :
               rings[k].mesh.id \in mainGroup =>
                   /\ geomDisposed[rings[k].mesh.geometry] = 0
                   /\ matStore[rings[k].mesh.material].disposed = 0

\* the identities of the rings, in order
RingIdentities == [k \in 1..Len(rings) |-> rings[k].mesh.id]

\* one ring for each axis of the 16 and each step of -2..2, 80 in all
RingsComplete ==
    /\ Len(rings) = 80
    /\ totalAxesCount = 16
    /\ \A a \in 0..15, st \in -2..2 :
           Cardinality({k \in 1..Len(rings) :
                          rings[k].axisIndex = a /\ rings[k].step = st}) = 1

C7_NoneIsIdentity ==
    (lastOp.op \in {"animate", "init"} /\ currentMode = "none") =>
        \A k \in 1..Len(rings) :
            /\ rings[k].mesh.position = rings[k].basePosition
            /\ rings[k].mesh.quaternion = rings[k].baseQuaternion
            /\ rings[k].mesh.scale = 1000 + 2 * rings[k].axisIndex

\* a frame has run in mode 'none' at a time past 0, on rings reset to coplanar
C7_Witness ==
    /\ lastOp.op = "animate"
    /\ currentMode = "none"
    /\ clock.elapsedTime > 0
    /\ rings # <<>>
    /\ rings[1].baseQuaternion = rings[1].quatCoplanar

\* C8: resetView(orientation) leaves every ring's baseQuaternion and mesh
\* orientation equal to quatPerpendicular for 'perpendicular', quatCoplanar
\* for 'coplanar' and the identity for 'faceOn'; the camera, when there is
\* one, is at the top-down pose for 'coplanar' and at the tunnel pose for any
\* other argument, the missing argument of the UI's reset included.
C8_ResetOrientation ==
    lastOp.op = "resetView" =>
        /\ \A k \in 1..Len(rings) :
               LET r == rings[k]
               IN  /\ r.mesh.quaternion = r.baseQuaternion
                   /\ lastOp.arg = "perpendicular" => r.baseQuaternion = r.quatPerpendicular
                   /\ lastOp.arg = "coplanar" => r.baseQuaternion = r.quatCoplanar
                   /\ lastOp.arg = "faceOn" => r.baseQuaternion = IdentityQ
        /\ camera # NoCamera =>
               camera = IF lastOp.arg = "coplanar" THEN TopDownPose ELSE TunnelPose

\* resetView('coplanar') has returned on a built scene with a camera, on
\* rings whose two references differ
C8_Witness ==
    /\ lastOp.op = "resetView"
    /\ lastOp.arg = "coplanar"
    /\ camera = TopDownPose
    /\ rings # <<>>
    /\ rings[2].quatCoplanar # rings[2].quatPerpendicular

\* C9: while the scene is initialised the selected track is the track of
\* currentMode (none for 'none'), and every preloaded track has the volume and
\* the muted flag of the signals.
C9_AudioInSync ==
    Live =>
        /\ currentAudio = IF currentMode = "none" THEN 0 ELSE audioMap[currentMode]
        /\ \A n \in AudioValues(audioMap) :
               audios[n].volume = volume /\ audios[n].muted = isMuted

\* C10 as stated: setVisual on an empty ring collection changes no field, the
\* recorded style included.
C10_EmptyStyleChangesNothing ==
    [][ (lastOp'.op = "setVisual" /\ rings = <<>>) => UNCHANGED serviceState ]_vars

\* C10 amended: setVisual on an empty ring collection makes and releases no
\* material and changes no field but currentStyle, which records the style.
C10_EmptyStyleOnlyRecords ==
    [][ (lastOp'.op = "setVisual" /\ rings = <<>>) =>
          /\ currentStyle' = lastOp'.arg
          /\ UNCHANGED <<renderer, rendererDisposed, camera, controls, rings,
                         mainGroup, sharedGeometry, geomDisposed, matStore,
                         animationId, rafPending, clock, currentMode, volume,
                         isMuted, totalAxesCount, currentAudio, audioMap, audios,
                         resizeListeners>> ]_vars

\* setVisual('styleA') has returned before any build
C10_Witness ==
    /\ lastOp.op = "setVisual"
    /\ lastOp.arg = "styleA"
    /\ rings = <<>>
    /\ currentStyle = "styleA"

\* C11 as stated: the commands reject a value outside their enum, so the mode
\* and the style are always values of their enums, and on an initialised scene
\* every ring's material is one of the three styles' (never the material of
\* applyStyle's default branch).
C11_EnumValuesOnly ==
    /\ currentMode \in AnimMode
    /\ currentStyle \in VisualStyle
    /\ Live => \A k \in 1..Len(rings) :
                   matStore[rings[k].mesh.material].kind \in VisualStyle

\* C12: the transform a frame leaves on a ring is a function of the mode, the
\* elapsed time, the ring's static data (basePosition, axisIndex, planeIndex,
\* step, array index) and its baseQuaternion: position basePosition, scale
\* 1.0 + axisIndex * 0.002, orientation baseQuaternion turned by the mode's
\* rotation at that time.  Nothing of the transform the mesh had before the
\* frame, whatever frames and modes produced it, is left.
C12_FrameIsFunctionOfTime ==
    lastOp.op \in {"animate", "init"} =>
        \A k \in 1..Len(rings) :
            LET r == rings[k]
                turn == ModeRotation(currentMode, clock.elapsedTime, r, k - 1)
            IN  /\ r.mesh.position = r.basePosition
                /\ r.mesh.scale = 1000 + 2 * r.axisIndex
                /\ r.mesh.quaternion = [r.baseQuaternion EXCEPT !.rot = turn]

\* a frame has run in mode3 past time 0 on rings reset to coplanar; the
\* first ring carries mode3's rotation and its base scale
C12_Witness ==
    /\ lastOp.op = "animate"
    /\ currentMode = "mode3"
    /\ clock.elapsedTime = 1
    /\ rings # <<>>
    /\ rings[1].baseQuaternion = rings[1].quatCoplanar
    /\ rings[1].mesh.quaternion.rot.kind = "tiltAxis30sin"
    /\ rings[1].mesh.scale = 1000

\* C13 as stated: every geometry but the current one is disposed, and every
\* material made for a mesh that is no longer a ring's is disposed.
C13_RebuildReleasesPrevious ==
    /\ \A g \in 1..Len(geomDisposed) : g # sharedGeometry => geomDisposed[g] >= 1
    /\ \A m \in 1..Len(matStore) :
           matStore[m].mesh \notin RingMeshIds => matStore[m].disposed >= 1

\* the fields of a ring that its build fixes
RingStatic(r) ==
    <<r.mesh.id, r.direction, r.step, r.basePosition, r.quatPerpendicular,
      r.quatCoplanar, r.axisIndex, r.planeIndex>>

\* C14: each ring's baseQuaternion is its quatPerpendicular, its quatCoplanar
\* or the identity, and quatPerpendicular right after a build; only resetView
\* (and a build, which makes new rings) changes it; basePosition,
\* quatPerpendicular and quatCoplanar of a ring never change after its build.
C14_BaseQuaternionSingleWriter ==
    [][ /\ \A k \in 1..Len(rings') :
               rings'[k].baseQuaternion \in
                   {rings'[k].quatPerpendicular, rings'[k].quatCoplanar, IdentityQ}
        /\ lastOp'.op = "init" =>
               \A k \in 1..Len(rings') :
                   rings'[k].baseQuaternion = rings'[k].quatPerpendicular
        /\ lastOp'.op # "init" =>
               /\ Len(rings') = Len(rings)
               /\ \A k \in 1..Len(rings) : RingStatic(rings'[k]) = RingStatic(rings[k])
        /\ lastOp'.op \notin {"init", "resetView"} =>
               \A k \in 1..Len(rings) :
                   rings'[k].baseQuaternion = rings[k].baseQuaternion ]_vars

\* setVisual has returned on rings that a resetView('coplanar') had turned
\* and frames of mode1 had rotated past time 0
C14_Witness ==
    /\ lastOp.op = "setVisual"
    /\ rings # <<>>
    /\ rings[1].baseQuaternion = rings[1].quatCoplanar
    /\ rings[1].baseQuaternion # rings[1].quatPerpendicular
    /\ rings[1].mesh.quaternion.rot.kind = "tiltX35sin"

\* C15 as stated: after a frame in mode2 at time t a ring of layer |step| is
\* turned about local X by ((t - layer * 0.5) mod 3) / 3 of a full turn, mod
\* the non-negative modulus: a progress in [0, 1).
C15_NonNegativeCycle ==
    (lastOp.op \in {"animate", "init"} /\ currentMode = "mode2") =>
        \A k \in 1..Len(rings) :
            LET layer == IF rings[k].step < 0 THEN - rings[k].step ELSE rings[k].step
                progress == (clock.elapsedTime - layer) % 6
            IN  rings[k].mesh.quaternion.rot =
                    IF progress = 0 THEN NoRot
                    ELSE [kind |-> "rotXturns", axis |-> 0, a |-> progress, b |-> 6]

\* direction d scaled by the fraction p / q
Scaled(d, p, q) ==
    [num |-> <<p * d.num[1], p * d.num[2], p * d.num[3]>>, n2 |-> d.n2, den |-> q * d.den]

\* C16: every ring's basePosition is its direction times signedDistance(step):
\* 0 for step 0, 1.0 and -1.0 for steps 1 and -1, 2.5 and -2.5 for steps 2 and
\* -2; the rings of steps s and -s of one axis are at opposite positions and
\* the step-0 ring is at the origin.
C16_BasePositions ==
    \A k \in 1..Len(rings) :
        LET r == rings[k]
            d == r.direction
        IN  /\ r.step = 0 => r.basePosition = [num |-> <<0, 0, 0>>, n2 |-> 1, den |-> 1]
            /\ r.step = 1 => r.basePosition = Scaled(d, 1, 1)
            /\ r.step = -1 => r.basePosition = Scaled(d, -1, 1)
            /\ r.step = 2 => r.basePosition = Scaled(d, 5, 2)
            /\ r.step = -2 => r.basePosition = Scaled(d, -5, 2)
            /\ \A j \in 1..Len(rings) :
                   (rings[j].axisIndex = r.axisIndex /\ rings[j].step = - r.step) =>
                       /\ rings[j].basePosition.num[1] = - r.basePosition.num[1]
                       /\ rings[j].basePosition.num[2] = - r.basePosition.num[2]
                       /\ rings[j].basePosition.num[3] = - r.basePosition.num[3]
                       /\ rings[j].basePosition.n2 = r.basePosition.n2
                       /\ rings[j].basePosition.den = r.basePosition.den

\* a frame has run on built rings; the first ring, step -2 of the X axis, is
\* at (-2.5, 0, 0) and the fifth, step 2, at (2.5, 0, 0)
C16_Witness ==
    /\ lastOp.op = "animate"
    /\ Len(rings) >= 5
    /\ rings[1].step = -2
    /\ rings[1].mesh.position = [num |-> <<-5, 0, 0>>, n2 |-> 1, den |-> 2]
    /\ rings[5].mesh.position = [num |-> <<5, 0, 0>>, n2 |-> 1, den |-> 2]

\* the rings of step st on the vertical axis
YRings(st) ==
    { k \in 1..Len(rings) :
        rings[k].direction = [num |-> <<0, 1, 0>>, n2 |-> 1, den |-> 1] /\ rings[k].step = st }

\* C17: on a built scene the vertical axis has, for each step of -2..2, four
\* rings, one in each plane, at the same basePosition, with pairwise different
\* axisIndex, planeIndex and mesh, and with pairwise different scales
\* 1.0 + axisIndex * 0.002 on their meshes in every state (frames included).
C17_VerticalAxisDuplicated ==
    rings # <<>> =>
        \A st \in -2..2 :
            /\ Cardinality(YRings(st)) = 4
            /\ { rings[k].planeIndex : k \in YRings(st) } = 0..3
            /\ \A j, k \in YRings(st) :
                   /\ rings[j].basePosition = rings[k].basePosition
                   /\ rings[k].mesh.scale = 1000 + 2 * rings[k].axisIndex
                   /\ j # k =>
                          /\ rings[j].axisIndex # rings[k].axisIndex
                          /\ rings[j].planeIndex # rings[k].planeIndex
                          /\ rings[j].mesh.id # rings[k].mesh.id
                          /\ rings[j].mesh.scale # rings[k].mesh.scale

\* a frame has run after a rebuild; the step-1 rings of the vertical axis are
\* the four of axes 1, 5, 9 and 13, scaled 1.002, 1.010, 1.018 and 1.026
C17_Witness ==
    /\ lastOp.op = "animate"
    /\ Len(geomDisposed) = 2
    /\ { rings[k].axisIndex : k \in YRings(1) } = {1, 5, 9, 13}
    /\ { rings[k].mesh.scale : k \in YRings(1) } = {1002, 1010, 1018, 1026}

\* the vector quatCoplanar of ring r rotates canonical-forward onto
TangentOf(r) ==
    IF r.quatCoplanar.kind = "identity"
    THEN [num |-> <<0, 0, 1>>, n2 |-> 1, den |-> 1]
    ELSE r.quatCoplanar.to

\* C18: for every ring, quatCoplanar rotates (0,0,1) onto the normalised cross
\* product of the direction with world-up (0,1,0) when |direction . up| <= 0.9
\* and with (1,0,0) otherwise; that cross product is not zero and is
\* orthogonal to the direction.
C18_TangentOrthogonal ==
    \A k \in 1..Len(rings) :
        LET r == rings[k]
            d == r.direction.num
            nearUp == 100 * d[2] * d[2] > 81 * r.direction.n2
            c == IF nearUp THEN <<0, d[3], - d[2]>> ELSE <<- d[3], 0, d[1]>>
            t == TangentOf(r)
        IN  /\ c # <<0, 0, 0>>
            /\ t = [num |-> c, n2 |-> c[1] * c[1] + c[2] * c[2] + c[3] * c[3], den |-> 1]
            /\ t.num[1] * d[1] + t.num[2] * d[2] + t.num[3] * d[3] = 0
            /\ r.quatCoplanar.kind \in {"identity", "unitVectors"}
            /\ r.quatCoplanar.kind = "unitVectors" =>
                   r.quatCoplanar.from = [num |-> <<0, 0, 1>>, n2 |-> 1, den |-> 1]

\* resetView('coplanar') has put quatCoplanar in use; the sixth ring is on the
\* vertical axis, where the fallback is taken and the tangent is (0,0,-1)
C18_Witness ==
    /\ lastOp.op = "resetView"
    /\ lastOp.arg = "coplanar"
    /\ Len(rings) >= 6
    /\ rings[6].direction = [num |-> <<0, 1, 0>>, n2 |-> 1, den |-> 1]
    /\ rings[6].baseQuaternion.kind = "unitVectors"
    /\ rings[6].baseQuaternion.to = [num |-> <<0, 0, -1>>, n2 |-> 1, den |-> 1]

\* C19 as stated: after dispose no resize listener of the service is
\* registered, no resize event runs onWindowResize on a released renderer, and
\* at most one listener is registered at any time.
C19_ListenersUnregistered ==
    /\ TornDown => resizeListeners = {}
    /\ Cardinality(resizeListeners) <= 1
    /\ lastOp.op = "onWindowResize" => lastOp.arg = "live"

====
